---------------------------- MODULE Spec2Model ----------------------------
(***************************************************************************)
(* Model of src/main.py: the three-level scenario overlay                  *)
(* (get_combined_inputs), the parameter lookup (get_series), the EBITDA    *)
(* calculation (calculate_ebitda) and the script's loop over the scenario  *)
(* combinations.                                                           *)
(*                                                                         *)
(* A DataFrame is a sequence of rows (records) in row order; the index of  *)
(* a frame is the key fields of its rows.  A Series is a record            *)
(* [index, values] of two sequences of equal length.  Numbers are the      *)
(* non-negative integers 0..MaxVal, which float64 holds and computes       *)
(* exactly; NaN is the missing-value marker.                               *)
(***************************************************************************)
EXTENDS Integers, Sequences, FiniteSets, TLC

VARIABLES
    base_inputs_df,      \* main.py:155  the cleaned table, rows in file order
    year_cols,           \* main.py:155  the year column labels
    pc,                  \* position of the script
    idx,                 \* position of the for loop in scenario_combinations
    combined_inputs,     \* main.py:176
    report_df,           \* main.py:179
    all_ebitda_series,   \* main.py:165  dict, as its items in insertion order
    final_comparison_df, \* main.py:192
    stdout,              \* the Error/Warning lines printed so far
    exit_code,           \* status passed to sys.exit (0 while running)
    request,             \* arguments of a direct get_series call
    series               \* value returned by that call

vars == <<base_inputs_df, year_cols, pc, idx, combined_inputs, report_df,
          all_ebitda_series, final_comparison_df, stdout, exit_code,
          request, series>>

---------------------------------------------------------------------------
(* Bounds and value domains *)

\* largest number that occurs in a table cell
MaxVal == 2

\* the missing value (float NaN).  clean_data turns every cell that holds a
\* '-' into NaN (main.py:43), so no negative number reaches the table and -1
\* is free to stand for NaN.  Only table cells are ever tested with notna; a
\* computed EBITDA may be negative and is never read as a missing value.
NaN == -1

Values == 0..MaxVal
Cells == Values \cup {NaN}

\* year columns of the input file (columns starting with '20', main.py:25)
YearLabels == <<"2026", "2027">>

None == <<>>

---------------------------------------------------------------------------
(* pandas primitives *)

\* pd.notna
notna(v) == v # NaN

\* the (category, parameter) index entry of a row of a layer
index(row) == <<row.category, row.parameter>>

\* a row of df.loc[name]: the scenario level is dropped
droplevel(row) ==
    [category |-> row.category, parameter |-> row.parameter,
     const |-> row.const, years |-> row.years]

\* base_inputs_df.loc[name] raises KeyError iff no row carries the label
KeyError(df, name) == \A i \in 1..Len(df) : df[i].scenario # name

\* base_inputs_df.loc[name]: the rows of scenario name, in table order
loc(df, name) ==
    LET sel == SelectSeq(df, LAMBDA r : r.scenario = name)
    IN  [i \in 1..Len(sel) |-> droplevel(sel[i])]

\* pd.concat(frames): the frames stacked vertically
concat(frames) ==
    LET F[i \in 0..Len(frames)] ==
            IF i = 0 THEN <<>> ELSE F[i - 1] \o frames[i]
    IN  F[Len(frames)]

\* frame.index.duplicated(keep='first'): TRUE for every row whose key occurs
\* further up
duplicated_first(frame) ==
    [i \in 1..Len(frame) |->
        \E j \in 1..(i - 1) : index(frame[j]) = index(frame[i])]

\* frame.index.duplicated(keep='last'): TRUE for every row whose key occurs
\* again further down
duplicated_last(frame) ==
    [i \in 1..Len(frame) |->
        \E j \in (i + 1)..Len(frame) : index(frame[j]) = index(frame[i])]

\* frame[~mask]: the rows whose mask entry is FALSE, in order
drop_masked(frame, mask) ==
    LET F[i \in 0..Len(frame)] ==
            IF i = 0 THEN <<>>
            ELSE IF mask[i] THEN F[i - 1] ELSE Append(F[i - 1], frame[i])
    IN  F[Len(frame)]

\* pd.Series([v] * len(year_cols), index=year_cols)
broadcast(v, cols) == [index |-> cols, values |-> [i \in 1..Len(cols) |-> v]]

\* variant: the default series is left unfilled
zeros_unfilled(cols) == broadcast(NaN, cols)

\* pd.Series([0] * len(year_cols), index=year_cols), line 110
zeros(cols) == broadcast(0, cols)

\* variant: the gaps are left as they are
fillna_skipped(s) == s

\* Series.fillna(0)
fillna0(s) ==
    [index |-> s.index,
     values |-> [i \in 1..Len(s.values) |->
                    IF notna(s.values[i]) THEN s.values[i] ELSE 0]]

\* a * b and a - b on two Series.  Every Series of the program is indexed by
\* year_cols, so alignment pairs the entries position by position.
series_mul(a, b) ==
    [index |-> a.index,
     values |-> [i \in 1..Len(a.values) |-> a.values[i] * b.values[i]]]

series_sub(a, b) ==
    [index |-> a.index,
     values |-> [i \in 1..Len(a.values) |-> a.values[i] - b.values[i]]]

---------------------------------------------------------------------------
(* Diagnostics printed by the program *)

ErrorCommon(name) == [level |-> "Error", what |-> "scenario", name |-> name]
WarnBaseRev(name) == [level |-> "Warning", what |-> "base_revenue", name |-> name]
WarnTraderCogs(name) == [level |-> "Warning", what |-> "trader_cogs", name |-> name]
WarnParameter(category, parameter) ==
    [level |-> "Warning", what |-> "parameter", name |-> <<category, parameter>>]

---------------------------------------------------------------------------
(* get_combined_inputs, main.py:58-96 *)

\* pd.DataFrame(index=common_inputs.index, columns=common_inputs.columns)
\* (lines 79 and 86): a frame with the rows of common, every cell NaN
empty_like(common_inputs) ==
    [i \in 1..Len(common_inputs) |->
        [category |-> common_inputs[i].category,
         parameter |-> common_inputs[i].parameter,
         const |-> NaN,
         years |-> [j \in 1..Len(common_inputs[i].years) |-> NaN]]]

\* variant: the placeholder frame of an absent layer is concatenated too
inputs_to_combine_with_placeholders(df, common_name, base_rev_name, trader_cogs_name) ==
    <<loc(df, common_name)>>
    \o (IF KeyError(df, base_rev_name) THEN <<empty_like(loc(df, common_name))>>
        ELSE <<loc(df, base_rev_name)>>)
    \o (IF KeyError(df, trader_cogs_name) THEN <<empty_like(loc(df, common_name))>>
        ELSE <<loc(df, trader_cogs_name)>>)

\* the layers that are concatenated (inputs_to_combine at line 90)
inputs_to_combine(df, common_name, base_rev_name, trader_cogs_name) ==
    <<loc(df, common_name)>>
    \o (IF KeyError(df, base_rev_name) THEN <<>> ELSE <<loc(df, base_rev_name)>>)
    \o (IF KeyError(df, trader_cogs_name) THEN <<>>
        ELSE <<loc(df, trader_cogs_name)>>)

\* variant: keep='first'
deduplicate_keep_first(combined) == drop_masked(combined, duplicated_first(combined))

\* combined[~combined.index.duplicated(keep='last')]
deduplicate(combined) == drop_masked(combined, duplicated_last(combined))

\* the lines printed for the optional layers (lines 78 and 85)
layer_warnings(df, base_rev_name, trader_cogs_name) ==
    (IF KeyError(df, base_rev_name) THEN <<WarnBaseRev(base_rev_name)>> ELSE <<>>)
    \o (IF KeyError(df, trader_cogs_name)
        THEN <<WarnTraderCogs(trader_cogs_name)>> ELSE <<>>)

\* variant: a missing common layer is treated like a missing optional layer
get_combined_inputs_lenient(df, common_name, base_rev_name, trader_cogs_name) ==
    [exit |-> FALSE,
     combined |-> deduplicate(concat(
         inputs_to_combine(df, common_name, base_rev_name, trader_cogs_name))),
     out |-> layer_warnings(df, base_rev_name, trader_cogs_name)]

\* variant: a missing base_revenue layer is fatal like a missing common layer
get_combined_inputs_strict(df, common_name, base_rev_name, trader_cogs_name) ==
    IF KeyError(df, common_name)
    THEN [exit |-> TRUE, combined |-> None, out |-> <<ErrorCommon(common_name)>>]
    ELSE IF KeyError(df, base_rev_name)
    THEN [exit |-> TRUE, combined |-> None, out |-> <<ErrorCommon(base_rev_name)>>]
    ELSE [exit |-> FALSE,
          combined |-> deduplicate(concat(
              inputs_to_combine(df, common_name, base_rev_name, trader_cogs_name))),
          out |-> layer_warnings(df, base_rev_name, trader_cogs_name)]

\* Returns [exit, combined, out]: exit is TRUE when sys.exit(1) is called,
\* combined is the returned frame, out the lines printed.
get_combined_inputs(df, common_name, base_rev_name, trader_cogs_name) ==
    IF KeyError(df, common_name)
    THEN [exit |-> TRUE, combined |-> None, out |-> <<ErrorCommon(common_name)>>]
    ELSE [exit |-> FALSE,
          combined |-> deduplicate(concat(
              inputs_to_combine(df, common_name, base_rev_name, trader_cogs_name))),
          out |-> layer_warnings(df, base_rev_name, trader_cogs_name)]

---------------------------------------------------------------------------
(* get_series, main.py:98-119 *)

\* inputs_df.loc[(category, parameter)] raises KeyError
RowMissing(inputs_df, category, parameter) ==
    \A i \in 1..Len(inputs_df) : index(inputs_df[i]) # <<category, parameter>>

\* inputs_df.loc[(category, parameter)] on a frame with a unique index
row_at(inputs_df, category, parameter) ==
    inputs_df[CHOOSE i \in 1..Len(inputs_df) :
                  index(inputs_df[i]) = <<category, parameter>>]

\* variant: "if const_val:", which takes a constant of 0 for a missing one
const_truthy(row) == notna(row.const) /\ row.const # 0

\* the test of line 114
const_present(row) == notna(row.const)

\* row[year_cols]
row_years(row, cols) == [index |-> cols, values |-> row.years]

\* Returns [ret, out]: the returned Series and the lines printed.
get_series(inputs_df, category, parameter, cols) ==
    IF RowMissing(inputs_df, category, parameter)
    THEN [ret |-> zeros(cols), out |-> <<WarnParameter(category, parameter)>>]
    ELSE LET row == row_at(inputs_df, category, parameter)
         IN  IF const_present(row)
             THEN [ret |-> broadcast(row.const, cols), out |-> <<>>]
             ELSE [ret |-> fillna0(row_years(row, cols)), out |-> <<>>]

---------------------------------------------------------------------------
(* calculate_ebitda, main.py:121-149 *)

MarginCategory == "net_revenue"
MarginParameter == "Total gross margin (base)"
CogsCategory == "trader_cogs"
CogsParameter == "trader_cogs_percent"

\* variant: the percentage itself is taken as the cost
trader_cogs_cost_unscaled(base_gross_margin, trader_cogs_percent) ==
    trader_cogs_percent

\* line 136
trader_cogs_cost(base_gross_margin, trader_cogs_percent) ==
    series_mul(base_gross_margin, trader_cogs_percent)

\* line 141
ebitda(base_gross_margin, cost) == series_sub(base_gross_margin, cost)

\* Returns [report, out]: the report's columns and the lines printed.
calculate_ebitda(inputs_df, cols) ==
    LET m == get_series(inputs_df, MarginCategory, MarginParameter, cols)
        c == get_series(inputs_df, CogsCategory, CogsParameter, cols)
        cost == trader_cogs_cost(m.ret, c.ret)
    IN  [report |-> [index |-> cols,
                     BaseGrossMargin |-> m.ret.values,
                     TraderCOGSCost |-> cost.values,
                     EBITDA |-> ebitda(m.ret, cost).values],
         out |-> m.out \o c.out]

\* report_df['EBITDA']
ebitda_column(report) == [index |-> report.index, values |-> report.EBITDA]

---------------------------------------------------------------------------
(* The script, main.py:152-200 *)

common == "common"

\* lines 158-159
base_revenue_scenarios == <<"base", "low">>
trader_cogs_scenarios == <<"vitol", "gen-i", "met">>

\* variant: the first position varies fastest
product_first_fastest(a, b) ==
    [k \in 1..(Len(a) * Len(b)) |->
        <<a[((k - 1) % Len(a)) + 1], b[((k - 1) \div Len(a)) + 1]>>]

\* itertools.product(a, b) as a list: the last position varies fastest
product(a, b) ==
    [k \in 1..(Len(a) * Len(b)) |->
        <<a[((k - 1) \div Len(b)) + 1], b[((k - 1) % Len(b)) + 1]>>]

\* line 162
scenario_combinations == product(base_revenue_scenarios, trader_cogs_scenarios)

\* the characters of a scenario identifier
Chars(s) ==
    CASE s = "base" -> <<"b", "a", "s", "e">>
      [] s = "low" -> <<"l", "o", "w">>
      [] s = "vitol" -> <<"v", "i", "t", "o", "l">>
      [] s = "gen-i" -> <<"g", "e", "n", "-", "i">>
      [] s = "met" -> <<"m", "e", "t">>
      [] s = "common" -> <<"c", "o", "m", "m", "o", "n">>

\* f"{base_rev} + {trader_cogs}" (line 172), as a sequence of characters
scenario_name(base_rev, trader_cogs) ==
    Chars(base_rev) \o <<" ", "+", " ">> \o Chars(trader_cogs)

\* d[k] = v on a dict kept as its items in insertion order: an existing key
\* keeps its place and takes the new value, a new key goes last
dict_set(d, k, v) ==
    IF \E i \in 1..Len(d) : d[i].key = k
    THEN [i \in 1..Len(d) |-> IF d[i].key = k THEN [key |-> k, value |-> v] ELSE d[i]]
    ELSE Append(d, [key |-> k, value |-> v])

\* pd.DataFrame(all_ebitda_series): one column per key, in insertion order
DataFrame(d) ==
    [index |-> IF d = <<>> THEN <<>> ELSE d[1].value.index,
     columns |-> [i \in 1..Len(d) |-> d[i].key],
     data |-> [i \in 1..Len(d) |-> d[i].value.values]]

\* the (category, parameter) pairs asked for in direct get_series calls: the
\* two of calculate_ebitda, a parameter that is no input of it, an unknown
\* parameter of a known category, and an unknown category
Requests ==
    {<<MarginCategory, MarginParameter>>, <<CogsCategory, CogsParameter>>,
     <<MarginCategory, CogsParameter>>, <<MarginCategory, "nonexistent_param">>,
     <<"x", "nonexistent_param">>}

\* variant: the layers are stacked on the frame of the previous combination
GetCombinedInputsAccumulating ==
    /\ pc = "merge"
    /\ LET pair == scenario_combinations[idx]
           r == get_combined_inputs(base_inputs_df, common, pair[1], pair[2])
       IN  /\ ~r.exit
           /\ combined_inputs' = deduplicate(combined_inputs \o r.combined)
           /\ stdout' = stdout \o r.out
    /\ pc' = "calc"
    /\ UNCHANGED <<base_inputs_df, year_cols, idx, report_df, all_ebitda_series,
                   final_comparison_df, exit_code, request, series>>

\* line 176 when get_combined_inputs returns
GetCombinedInputs ==
    /\ pc = "merge"
    /\ LET pair == scenario_combinations[idx]
           r == get_combined_inputs(base_inputs_df, common, pair[1], pair[2])
       IN  /\ ~r.exit
           /\ combined_inputs' = r.combined
           /\ stdout' = stdout \o r.out
    /\ pc' = "calc"
    /\ UNCHANGED <<base_inputs_df, year_cols, idx, report_df, all_ebitda_series,
                   final_comparison_df, exit_code, request, series>>

\* line 176 when get_combined_inputs calls sys.exit(1) (lines 68-70)
CommonNotFound ==
    /\ pc = "merge"
    /\ LET pair == scenario_combinations[idx]
           r == get_combined_inputs(base_inputs_df, common, pair[1], pair[2])
       IN  /\ r.exit
           /\ stdout' = stdout \o r.out
    /\ pc' = "exit"
    /\ exit_code' = 1
    /\ UNCHANGED <<base_inputs_df, year_cols, idx, combined_inputs, report_df,
                   all_ebitda_series, final_comparison_df, request, series>>

\* line 179
CalculateEbitda ==
    /\ pc = "calc"
    /\ LET r == calculate_ebitda(combined_inputs, year_cols)
       IN  /\ report_df' = r.report
           /\ stdout' = stdout \o r.out
    /\ pc' = "store"
    /\ UNCHANGED <<base_inputs_df, year_cols, idx, combined_inputs,
                   all_ebitda_series, final_comparison_df, exit_code, request,
                   series>>

\* line 182 and the step of the for loop (line 170)
StoreResult ==
    /\ pc = "store"
    /\ LET pair == scenario_combinations[idx]
       IN  all_ebitda_series' =
               dict_set(all_ebitda_series, scenario_name(pair[1], pair[2]),
                        ebitda_column(report_df))
    /\ idx' = idx + 1
    /\ pc' = IF idx < Len(scenario_combinations) THEN "merge" ELSE "compare"
    /\ UNCHANGED <<base_inputs_df, year_cols, combined_inputs, report_df,
                   final_comparison_df, stdout, exit_code, request, series>>

\* line 192
Compare ==
    /\ pc = "compare"
    /\ final_comparison_df' = DataFrame(all_ebitda_series)
    /\ pc' = "done"
    /\ UNCHANGED <<base_inputs_df, year_cols, idx, combined_inputs, report_df,
                   all_ebitda_series, stdout, exit_code, request, series>>

\* a direct call get_series(combined_inputs, category, parameter, year_cols)
GetSeries ==
    /\ pc = "resolve"
    /\ \E key \in Requests :
          LET category == key[1]
              parameter == key[2]
              r == get_series(combined_inputs, category, parameter, year_cols)
          IN  /\ request' = <<category, parameter>>
              /\ series' = r.ret
              /\ stdout' = stdout \o r.out
    /\ pc' = "resolved"
    /\ UNCHANGED <<base_inputs_df, year_cols, idx, combined_inputs, report_df,
                   all_ebitda_series, final_comparison_df, exit_code>>

---------------------------------------------------------------------------
(* Input tables *)

Row(scenario, key, const, years) ==
    [scenario |-> scenario, category |-> key[1], parameter |-> key[2],
     const |-> const, years |-> years]

MarginKey == <<MarginCategory, MarginParameter>>
CogsKey == <<CogsCategory, CogsParameter>>
\* a parameter the calculation never asks for, in a category it does ask for
OtherKey == <<MarginCategory, CogsParameter>>
Keys == {MarginKey, CogsKey, OtherKey}

NoYears == [i \in 1..Len(YearLabels) |-> NaN]
GapYears(v) == [i \in 1..Len(YearLabels) |-> IF i = 1 THEN v ELSE NaN]

\* every content a row can have
RowContents == [const : Cells, years : [1..Len(YearLabels) -> Cells]]

\* the contents used where many layers are combined
FewContents ==
    {[const |-> v, years |-> NoYears] : v \in {1, MaxVal}}
    \cup {[const |-> NaN, years |-> GapYears(MaxVal)]}

\* the table of a run: common holds at most one row, every base_revenue
\* scenario at most a margin row, every trader_cogs scenario at most a
\* trader_cogs_percent row
CommonLayers ==
    {<<>>}
    \cup {<<Row(common, k, v, NoYears)>> : k \in {MarginKey, CogsKey}, v \in Values}
    \cup {<<Row(common, MarginKey, NaN, GapYears(v))>> : v \in Values}

RunContents ==
    {[const |-> MaxVal, years |-> NoYears], [const |-> NaN, years |-> GapYears(MaxVal)]}

OptionalLayers(scenario, key) ==
    {<<>>} \cup {<<Row(scenario, key, c.const, c.years)>> : c \in RunContents}

RunTables ==
    {lc \o b1 \o b2 \o t1 \o t2 \o t3 :
        lc \in CommonLayers,
        b1 \in OptionalLayers("base", MarginKey),
        b2 \in OptionalLayers("low", MarginKey),
        t1 \in OptionalLayers("vitol", CogsKey),
        t2 \in OptionalLayers("gen-i", CogsKey),
        t3 \in OptionalLayers("met", CogsKey)}

\* the state when the for loop is entered (line 170)
InitRun ==
    /\ base_inputs_df \in RunTables
    /\ year_cols = YearLabels
    /\ pc = "merge"
    /\ idx = 1
    /\ combined_inputs = None
    /\ report_df = None
    /\ all_ebitda_series = <<>>
    /\ final_comparison_df = None
    /\ stdout = <<>>
    /\ exit_code = 0
    /\ request = None
    /\ series = None

Init == InitRun

Next ==
    \/ GetCombinedInputs
    \/ CommonNotFound
    \/ CalculateEbitda
    \/ StoreResult
    \/ Compare

Spec == Init /\ [][Next]_vars

\* the script runs to completion: no step waits on anything
FairSpec == Spec /\ WF_vars(Next)

---------------------------------------------------------------------------
(* get_combined_inputs on its own: the first call of the loop, on tables     *)
(* whose three layers hold up to two rows each, keys repeated or not         *)

MergeRows(scenario) ==
    {Row(scenario, k, c.const, c.years) : k \in {MarginKey, CogsKey}, c \in FewContents}

MergeLayers(scenario) ==
    {<<>>}
    \cup {<<r>> : r \in MergeRows(scenario)}
    \cup {<<r1, r2>> : r1 \in MergeRows(scenario), r2 \in MergeRows(scenario)}

MergeTables ==
    {lc \o lb \o lt :
        lc \in MergeLayers(common),
        lb \in MergeLayers(scenario_combinations[1][1]),
        lt \in MergeLayers(scenario_combinations[1][2])}

InitMerge ==
    /\ base_inputs_df \in MergeTables
    /\ year_cols = YearLabels
    /\ pc = "merge"
    /\ idx = 1
    /\ combined_inputs = None
    /\ report_df = None
    /\ all_ebitda_series = <<>>
    /\ final_comparison_df = None
    /\ stdout = <<>>
    /\ exit_code = 0
    /\ request = None
    /\ series = None

NextMerge ==
    \/ GetCombinedInputs
    \/ CommonNotFound

SpecMerge == InitMerge /\ [][NextMerge]_vars

---------------------------------------------------------------------------
(* get_series and calculate_ebitda on their own: the state after the first  *)
(* get_combined_inputs call on a table that holds a common layer of one or  *)
(* two rows with any contents                                               *)

ResolveRows(key) == {Row(common, key, c.const, c.years) : c \in RowContents}

ResolveTables ==
    {<<r>> : r \in UNION {ResolveRows(k) : k \in Keys}}
    \cup {<<r1, r2>> : r1 \in ResolveRows(MarginKey),
                       r2 \in ResolveRows(CogsKey) \cup ResolveRows(OtherKey)}
    \cup {<<r1, r2>> : r1 \in ResolveRows(CogsKey), r2 \in ResolveRows(OtherKey)}

InitResolve ==
    /\ base_inputs_df \in ResolveTables
    /\ year_cols = YearLabels
    /\ pc \in {"resolve", "calc"}
    /\ idx = 1
    /\ LET pair == scenario_combinations[1]
           r == get_combined_inputs(base_inputs_df, common, pair[1], pair[2])
       IN  /\ combined_inputs = r.combined
           /\ stdout = r.out
    /\ report_df = None
    /\ all_ebitda_series = <<>>
    /\ final_comparison_df = None
    /\ exit_code = 0
    /\ request = None
    /\ series = None

NextResolve ==
    \/ GetSeries
    \/ CalculateEbitda

SpecResolve == InitResolve /\ [][NextResolve]_vars

---------------------------------------------------------------------------
(* Vocabulary of the properties *)

\* the pair the loop is at
CurrentBaseRev == scenario_combinations[idx][1]
CurrentTraderCogs == scenario_combinations[idx][2]

\* the three layers of the current pair, as they stand in the table
CommonLayer == loc(base_inputs_df, common)
BaseRevLayer == loc(base_inputs_df, CurrentBaseRev)
TraderCogsLayer == loc(base_inputs_df, CurrentTraderCogs)

CommonAbsent == KeyError(base_inputs_df, common)
BaseRevAbsent == KeyError(base_inputs_df, CurrentBaseRev)
TraderCogsAbsent == KeyError(base_inputs_df, CurrentTraderCogs)

KeysOf(frame) == {index(frame[i]) : i \in 1..Len(frame)}

RowsAt(frame, k) == {i \in 1..Len(frame) : index(frame[i]) = k}

\* the row a layer gives for key k: the one furthest down
LayerRow(layer, k) ==
    layer[CHOOSE i \in RowsAt(layer, k) : \A j \in RowsAt(layer, k) : j <= i]

\* the highest of the layers (listed lowest first) that defines key k
TopLayer(layers, k) ==
    layers[CHOOSE i \in 1..Len(layers) :
              /\ k \in KeysOf(layers[i])
              /\ \A j \in (i + 1)..Len(layers) : k \notin KeysOf(layers[j])]

\* frame is the right-biased union of the layers: the keys of all layers,
\* each once, each with the whole row of the highest layer that defines it
IsOverlay(frame, layers) ==
    /\ KeysOf(frame) = UNION {KeysOf(layers[i]) : i \in 1..Len(layers)}
    /\ \A i, j \in 1..Len(frame) : index(frame[i]) = index(frame[j]) => i = j
    /\ \A i \in 1..Len(frame) :
          frame[i] = LayerRow(TopLayer(layers, index(frame[i])), index(frame[i]))

\* the row of the combined table for the request of the direct call
RequestedRows == {i \in 1..Len(combined_inputs) : index(combined_inputs[i]) = request}

IsSeriesOver(s, cols) == s.index = cols /\ Len(s.values) = Len(cols)

---------------------------------------------------------------------------
(* C1 *)

\* C1: whenever get_combined_inputs returns, the combined table is the
\* right-biased union of the layers common < base_revenue < trader_cogs:
\* its keys are the keys of the three layers, each key occurs once, and the
\* row under a key is the whole row of the highest layer that defines it.
C1_OverlayPriority ==
    pc = "calc" =>
        IsOverlay(combined_inputs, <<CommonLayer, BaseRevLayer, TraderCogsLayer>>)

\* a key defined by all three layers with three different rows, and a key
\* defined by common and base_revenue only
C1_Witness ==
    /\ pc = "calc"
    /\ MarginKey \in KeysOf(CommonLayer) \cap KeysOf(BaseRevLayer)
                     \cap KeysOf(TraderCogsLayer)
    /\ LayerRow(CommonLayer, MarginKey) # LayerRow(BaseRevLayer, MarginKey)
    /\ LayerRow(BaseRevLayer, MarginKey) # LayerRow(TraderCogsLayer, MarginKey)
    /\ LayerRow(CommonLayer, MarginKey) # LayerRow(TraderCogsLayer, MarginKey)
    /\ CogsKey \in (KeysOf(CommonLayer) \cap KeysOf(BaseRevLayer))
                     \ KeysOf(TraderCogsLayer)
    /\ LayerRow(CommonLayer, CogsKey) # LayerRow(BaseRevLayer, CogsKey)
    /\ \E i \in 1..Len(combined_inputs) :
          combined_inputs[i] = LayerRow(TraderCogsLayer, MarginKey)
    /\ \E i \in 1..Len(combined_inputs) :
          combined_inputs[i] = LayerRow(BaseRevLayer, CogsKey)

---------------------------------------------------------------------------
(* C2 *)

\* the warnings of the current merge are exactly those of its absent layers
LayerWarningsPrinted ==
    /\ (\E i \in 1..Len(stdout) : stdout[i] = WarnBaseRev(CurrentBaseRev))
           <=> BaseRevAbsent
    /\ (\E i \in 1..Len(stdout) : stdout[i] = WarnTraderCogs(CurrentTraderCogs))
           <=> TraderCogsAbsent

\* C2 as stated: with an optional layer absent the merge returns the overlay
\* of the remaining layers, with both absent it returns the common layer
\* unchanged, and each absent layer is warned about.
C2_AsStated ==
    pc = "calc" =>
        /\ (TraderCogsAbsent /\ ~BaseRevAbsent) =>
               IsOverlay(combined_inputs, <<CommonLayer, BaseRevLayer>>)
        /\ (BaseRevAbsent /\ ~TraderCogsAbsent) =>
               IsOverlay(combined_inputs, <<CommonLayer, TraderCogsLayer>>)
        /\ (BaseRevAbsent /\ TraderCogsAbsent) => combined_inputs = CommonLayer
        /\ LayerWarningsPrinted

\* C2 (amended): with an optional layer absent the merge returns the overlay
\* of the remaining layers; with both absent that is the common layer with
\* only the last row kept of every key it repeats, and the common layer
\* unchanged when it repeats no key.  Each absent layer is warned about.
C2_MissingLayer ==
    pc = "calc" =>
        /\ (TraderCogsAbsent /\ ~BaseRevAbsent) =>
               IsOverlay(combined_inputs, <<CommonLayer, BaseRevLayer>>)
        /\ (BaseRevAbsent /\ ~TraderCogsAbsent) =>
               IsOverlay(combined_inputs, <<CommonLayer, TraderCogsLayer>>)
        /\ (BaseRevAbsent /\ TraderCogsAbsent) =>
               /\ IsOverlay(combined_inputs, <<CommonLayer>>)
               /\ Cardinality(KeysOf(CommonLayer)) = Len(CommonLayer) =>
                      combined_inputs = CommonLayer
        /\ LayerWarningsPrinted

\* trader_cogs absent while common and base_revenue share a key
C2_Witness ==
    /\ pc = "calc"
    /\ TraderCogsAbsent
    /\ ~BaseRevAbsent
    /\ MarginKey \in KeysOf(CommonLayer) \cap KeysOf(BaseRevLayer)
    /\ LayerRow(CommonLayer, MarginKey) # LayerRow(BaseRevLayer, MarginKey)
    /\ CogsKey \in KeysOf(CommonLayer) \ KeysOf(BaseRevLayer)
    /\ stdout = <<WarnTraderCogs(CurrentTraderCogs)>>

---------------------------------------------------------------------------
(* C3 *)

\* C3: with no common rows in the table nothing is ever merged or stored and
\* the loop never advances; the merge call cannot return, and once it has
\* been made the process has exited with status 1 after printing the error
\* that names common.
C3_CommonMissingFatal ==
    CommonAbsent =>
        /\ pc \in {"merge", "exit"}
        /\ idx = 1
        /\ combined_inputs = None
        /\ report_df = None
        /\ all_ebitda_series = <<>>
        /\ pc = "merge" => (exit_code = 0 /\ ~ENABLED GetCombinedInputs)
        /\ pc = "exit" => (exit_code = 1 /\ stdout = <<ErrorCommon(common)>>)

\* the exit happened although both other layers exist
C3_Witness ==
    /\ pc = "exit"
    /\ CommonAbsent
    /\ ~KeyError(base_inputs_df, scenario_combinations[1][1])
    /\ ~KeyError(base_inputs_df, scenario_combinations[1][2])

---------------------------------------------------------------------------
(* C4, C5, C6 *)

\* C4: a get_series call for a row whose const is present returns a series
\* over year_cols whose every entry is that constant, whatever the row's
\* year values are.
C4_Broadcast ==
    pc = "resolved" =>
        \A i \in RequestedRows :
            notna(combined_inputs[i].const) =>
                /\ IsSeriesOver(series, year_cols)
                /\ \A j \in 1..Len(year_cols) :
                      series.values[j] = combined_inputs[i].const

\* a constant of 0 beside a year value that is neither null nor 0 and a year
\* value that is null
C4_Witness ==
    /\ pc = "resolved"
    /\ \E i \in RequestedRows :
          /\ combined_inputs[i].const = 0
          /\ combined_inputs[i].years[1] = MaxVal
          /\ combined_inputs[i].years[2] = NaN
    /\ series.values = <<0, 0>>

\* C5: a get_series call for a (category, parameter) with no row in the
\* combined table returns a series over year_cols whose every entry is zero,
\* and the last line printed is the warning about that parameter.
C5_ZeroDefault ==
    (pc = "resolved" /\ RequestedRows = {}) =>
        /\ IsSeriesOver(series, year_cols)
        /\ \A j \in 1..Len(year_cols) : series.values[j] = 0
        /\ stdout # <<>>
        /\ stdout[Len(stdout)] = WarnParameter(request[1], request[2])

\* an unknown parameter of a category the table does hold
C5_Witness ==
    /\ pc = "resolved"
    /\ RequestedRows = {}
    /\ \E i \in 1..Len(combined_inputs) : combined_inputs[i].category = request[1]
    /\ request[2] = "nonexistent_param"
    /\ series = [index |-> year_cols, values |-> <<0, 0>>]

\* C6: a get_series call for a row whose const is null returns a series over
\* year_cols in which a year whose value is null maps to zero and every
\* other year maps to its value; no entry of the result is null.
C6_GapFill ==
    pc = "resolved" =>
        \A i \in RequestedRows :
            ~notna(combined_inputs[i].const) =>
                /\ IsSeriesOver(series, year_cols)
                /\ \A j \in 1..Len(year_cols) :
                      /\ series.values[j] =
                             IF combined_inputs[i].years[j] = NaN THEN 0
                             ELSE combined_inputs[i].years[j]
                      /\ series.values[j] # NaN

\* a null first year beside a second year that holds a number
C6_Witness ==
    /\ pc = "resolved"
    /\ \E i \in RequestedRows :
          /\ combined_inputs[i].const = NaN
          /\ combined_inputs[i].years = <<NaN, MaxVal>>
    /\ series.values = <<0, MaxVal>>

---------------------------------------------------------------------------
(* C7, C8 *)

NumBaseRev == Len(base_revenue_scenarios)
NumTraderCogs == Len(trader_cogs_scenarios)

\* "{base_revenue_id} + {trader_cogs_id}"
Label(i, j) ==
    Chars(base_revenue_scenarios[i]) \o <<" ", "+", " ">>
        \o Chars(trader_cogs_scenarios[j])

\* the results stored so far are those of the first n pairs in
\* base_revenue-major order, one entry each
StoredInOrder(n) ==
    /\ Len(all_ebitda_series) = n
    /\ \A i \in 1..NumBaseRev, j \in 1..NumTraderCogs :
          (i - 1) * NumTraderCogs + j <= n =>
              all_ebitda_series[(i - 1) * NumTraderCogs + j].key = Label(i, j)

\* C7: with the common layer present the stored results are, at every point
\* of the run, those of the pairs already passed, in base_revenue-major
\* order and under the label of their pair; when the loop is over there are
\* exactly m*n of them.
C7_Enumeration ==
    ~CommonAbsent =>
        /\ StoredInOrder(idx - 1)
        /\ pc \in {"compare", "done"} =>
               Len(all_ebitda_series) = NumBaseRev * NumTraderCogs

\* the loop is over and the last result stored is that of the last pair
C7_Witness ==
    /\ pc = "done"
    /\ Len(all_ebitda_series) = NumBaseRev * NumTraderCogs
    /\ all_ebitda_series[Len(all_ebitda_series)].key = Label(NumBaseRev, NumTraderCogs)
    /\ final_comparison_df.columns[NumTraderCogs + 1] = Label(2, 1)

\* every pair has a stored result
AllPairsStored ==
    \A i \in 1..NumBaseRev, j \in 1..NumTraderCogs :
        \E k \in 1..Len(all_ebitda_series) : all_ebitda_series[k].key = Label(i, j)

\* C8: a run that enters the loop with the common layer present reaches the
\* comparison step with a result stored for every pair, whatever layers,
\* parameters or year values are missing.
C8_NoRecoverableAbort ==
    (pc = "merge" /\ idx = 1 /\ ~CommonAbsent) ~> (pc = "compare" /\ AllPairsStored)

\* the comparison step is reached after a missing base_revenue layer, a
\* missing trader_cogs layer, a missing parameter and a null year value
C8_Witness ==
    /\ pc = "compare"
    /\ AllPairsStored
    /\ \E i \in 1..Len(stdout) : stdout[i].what = "base_revenue"
    /\ \E i \in 1..Len(stdout) : stdout[i].what = "trader_cogs"
    /\ \E i \in 1..Len(stdout) : stdout[i].what = "parameter"
    /\ \E i \in 1..Len(base_inputs_df) :
          /\ base_inputs_df[i].const = NaN
          /\ base_inputs_df[i].years[2] = NaN
          /\ base_inputs_df[i].scenario = "low"

---------------------------------------------------------------------------
(* C9 *)

\* the two series calculate_ebitda resolves
ResolvedMargin ==
    get_series(combined_inputs, MarginCategory, MarginParameter, year_cols).ret.values
ResolvedCogs ==
    get_series(combined_inputs, CogsCategory, CogsParameter, year_cols).ret.values

\* C9: the report has one EBITDA entry per year label, equal to
\* margin - margin * cogs of that year; it equals the margin when the cogs
\* parameter is absent and is zero in every year when the margin parameter
\* is absent.
C9_EbitdaFormula ==
    pc = "store" =>
        /\ report_df.index = year_cols
        /\ Len(report_df.EBITDA) = Len(year_cols)
        /\ \A j \in 1..Len(year_cols) :
              report_df.EBITDA[j] =
                  ResolvedMargin[j] - ResolvedMargin[j] * ResolvedCogs[j]
        /\ CogsKey \notin KeysOf(combined_inputs) =>
               report_df.EBITDA = report_df.BaseGrossMargin
        /\ MarginKey \notin KeysOf(combined_inputs) =>
               \A j \in 1..Len(year_cols) : report_df.EBITDA[j] = 0

\* a margin given per year and a constant cogs, both non-zero
C9_Witness ==
    /\ pc = "store"
    /\ \E i \in 1..Len(combined_inputs) :
          /\ index(combined_inputs[i]) = MarginKey
          /\ combined_inputs[i].const = NaN
          /\ combined_inputs[i].years = <<1, 2>>
    /\ \E i \in 1..Len(combined_inputs) :
          /\ index(combined_inputs[i]) = CogsKey
          /\ combined_inputs[i].const = 2
    /\ report_df.EBITDA = <<1 - 1 * 2, 2 - 2 * 2>>

---------------------------------------------------------------------------
(* C10 *)

\* the EBITDA series of pair n when that pair is processed alone
Alone(n) ==
    LET pair == scenario_combinations[n]
        merged == get_combined_inputs(base_inputs_df, common, pair[1], pair[2])
    IN  ebitda_column(calculate_ebitda(merged.combined, year_cols).report)

\* C10: no step changes the input table or the year labels, and after every
\* step the result stored for each pair is the result of processing that
\* pair alone.
C10_NoSharedState ==
    [][/\ base_inputs_df' = base_inputs_df
       /\ year_cols' = year_cols
       /\ \A n \in 1..Len(all_ebitda_series') :
             all_ebitda_series'[n].value = Alone(n)]_vars

\* the run is over; the first pair found its trader_cogs layer, the second
\* did not and defaulted the parameter, and their results differ
C10_Witness ==
    /\ pc = "done"
    /\ ~KeyError(base_inputs_df, scenario_combinations[1][2])
    /\ KeyError(base_inputs_df, scenario_combinations[2][2])
    /\ \E i \in 1..Len(stdout) : stdout[i].what = "parameter"
    /\ all_ebitda_series[1].value # all_ebitda_series[2].value
    /\ all_ebitda_series[2].value = Alone(2)

===========================================================================
